---- MODULE Spec2Model ----
(***************************************************************************)
(* A model of Vector<T> (src/Vector.h): the raw buffer, the size/capacity  *)
(* bookkeeping, placement construction and destruction of elements, the    *)
(* two-buffer reallocation and the copy/move/swap ownership transfers.     *)
(*                                                                         *)
(* Two containers "a" and "b" of the same element type live over one heap. *)
(* Every public operation is one action; the element type's constructors   *)
(* and the allocator may throw, which is an input of the action.           *)
(***************************************************************************)
EXTENDS Integers, Sequences, FiniteSets, TLC

\* ---------------------------------------------------------------- bounds
MaxSlots == 4        \* the capacities of the live containers sum to at most this
MaxVal == 1          \* element values are 0..MaxVal; 0 is the value of T()
NumAddrs == 3        \* heap addresses 1..NumAddrs

Vecs == {"a", "b"}
\* The containers and the local `temp` of copy assignment.
Objs == Vecs \cup {"temp"}
Val == 0..MaxVal
Addrs == 1..NumAddrs

\* A slot of allocated storage that holds no constructed object.
Raw == -1
\* nullptr
NullPtr == 0
\* The value of a default-constructed element, T().
DefaultVal == 0

VARIABLES
    vec,            \* vec[v]: alive, _capacity, _size, _data of container v
    heap,           \* heap[p]: used, slots (0-based) of the block at address p
    abs,            \* abs[v]: the plain sequence the same operations build
    noexceptMove,   \* the element type's move constructor is noexcept
    last,           \* the call that has just returned or thrown, "idle" between calls
    held            \* a cursor the caller took earlier and still holds

vars == <<vec, heap, abs, noexceptMove, last, held>>

\* ------------------------------------------------------- heap and elements
FreeBlock == [used |-> FALSE, slots |-> [i \in {} |-> Raw]]

\* Members of a container that does not exist (before construction, after
\* destruction): nothing may read them.
NoVector == [alive |-> FALSE, _capacity |-> 0, _size |-> 0, _data |-> NullPtr]

\* Vector() noexcept
DefaultCtor == [alive |-> TRUE, _capacity |-> 0, _size |-> 0, _data |-> NullPtr]

\* What a call has done so far: allocations and frees, constructor runs by
\* kind, destructor runs on objects (dtor) and on slots holding none
\* (badDtor), constructions outside storage, objects lost with their storage
\* or overwritten (leak), frees of unallocated blocks, accesses to no object,
\* and the indices of the elements a reallocation relocated, in the order it
\* took them.
ZeroLog ==
    [alloc |-> 0, free |-> 0, copy |-> 0, move |-> 0, dflt |-> 0, args |-> 0,
     dtor |-> 0, badDtor |-> 0, badCtor |-> 0, leak |-> 0, badFree |-> 0,
     badAccess |-> 0, order |-> <<>>]

\* The faults one call can meet: the allocation fails, the k-th copy of an
\* existing element throws, the constructor of the new element throws, the
\* k-th default construction throws.
NoFault == [oom |-> FALSE, copyAt |-> 0, newThrows |-> FALSE, dfltAt |-> 0]

Faults ==
    {NoFault, [NoFault EXCEPT !.oom = TRUE], [NoFault EXCEPT !.newThrows = TRUE]}
    \cup {[NoFault EXCEPT !.copyAt = k] : k \in 1..MaxSlots}
    \cup {[NoFault EXCEPT !.dfltAt = k] : k \in 1..MaxSlots}

\* The running call: the members and the heap it works on, what it has
\* counted, the exception in flight, the pointer operator new returned and
\* the reference the call returns.
Machine(vs, hp) ==
    [vec |-> vs, heap |-> hp, log |-> ZeroLog, exc |-> "none",
     ptr |-> NullPtr, ref |-> <<NullPtr, 0>>, freed |-> {}]

Bump(m, k) == [m EXCEPT !.log[k] = @ + 1]

\* An exception leaves the call: bad_alloc, out_of_range, or what an element
\* constructor threw, named by the constructor: copy (the copy of an existing
\* element), new (the constructor of the appended element), dflt (T()).
Throw(m, e) == [m EXCEPT !.exc = e]

IsLive(m, p, i) ==
    /\ p # NullPtr
    /\ m.heap[p].used
    /\ i \in DOMAIN m.heap[p].slots
    /\ m.heap[p].slots[i] # Raw

\* ::operator new(n * sizeof(T)): the lowest free address, or std::bad_alloc.
OperatorNew(m, n, oom) ==
    LET free == {a \in Addrs : ~m.heap[a].used}
    IN  IF oom \/ free = {}
        THEN Throw(m, "bad_alloc")
        ELSE LET a == CHOOSE x \in free : \A y \in free : x <= y
             IN  [m EXCEPT !.heap[a] = [used |-> TRUE,
                                        slots |-> [i \in 0..(n - 1) |-> Raw]],
                           !.ptr = a,
                           !.log.alloc = @ + 1]

\* ::operator delete(p): nothing for nullptr; objects still alive in the
\* block are leaked; a block that is not allocated is a double free.
OperatorDelete(m, p) ==
    IF p = NullPtr THEN m
    ELSE IF ~m.heap[p].used THEN Bump(m, "badFree")
    ELSE LET n == Cardinality({i \in DOMAIN m.heap[p].slots : IsLive(m, p, i)})
         IN  [m EXCEPT !.heap[p] = FreeBlock,
                       !.log.leak = @ + n,
                       !.log.free = @ + 1,
                       !.freed = @ \cup {p}]

\* new (&p[i]) T(x); kind names the constructor: copy, move, dflt, args.
PlacementNew(m, p, i, x, kind) ==
    IF p = NullPtr \/ ~m.heap[p].used \/ i \notin DOMAIN m.heap[p].slots
    THEN Bump(m, "badCtor")
    ELSE [m EXCEPT !.heap[p].slots[i] = x,
                   !.log[kind] = @ + 1,
                   !.log.leak = @ + (IF IsLive(m, p, i) THEN 1 ELSE 0)]

\* p[i].~T(): on a slot that holds no object the destructor runs on garbage.
DestroyAt(m, p, i) ==
    IF IsLive(m, p, i)
    THEN [m EXCEPT !.heap[p].slots[i] = Raw, !.log.dtor = @ + 1]
    ELSE Bump(m, "badDtor")

\* for (i = lo; i < hi; ++i) p[i].~T();
RECURSIVE DestroyRange(_, _, _, _)
DestroyRange(m, p, lo, hi) ==
    IF lo >= hi THEN m
    ELSE DestroyRange(DestroyAt(m, p, lo), p, lo + 1, hi)

\* The value read through p[i]; where there is no object, what is read is
\* not a value of T.
Read(m, p, i) == IF IsLive(m, p, i) THEN m.heap[p].slots[i] ELSE Raw

\* *ref = x: the element behind a reference is assigned.
Write(m, ref, x) ==
    IF IsLive(m, ref[1], ref[2])
    THEN [m EXCEPT !.heap[ref[1]].slots[ref[2]] = x]
    ELSE Bump(m, "badAccess")

\* A relocation that copies whatever the element type's move promises.
move_if_noexcept_AlwaysCopy == "copy"

\* std::move_if_noexcept: move when T's move cannot throw, copy otherwise.
move_if_noexcept == IF noexceptMove THEN "move" ELSE "copy"

\* ------------------------------------------------------ private members
\* A definition named after another, as RelocateLoop_NoRollback after
\* RelocateLoop, is a slip the code could have made there; it replaces that
\* definition when a claim is tested against it.
\* RelocateLoop constructing every element from the first old element.
RECURSIVE RelocateLoop_FromFirst(_, _, _, _, _)
RelocateLoop_FromFirst(m, v, new_data, i, f) ==
    IF i >= m.vec[v]._size THEN m
    ELSE IF move_if_noexcept = "copy" /\ f.copyAt = i + 1
    THEN Throw(OperatorDelete(DestroyRange(m, new_data, 0, i), new_data), "copy")
    ELSE RelocateLoop_FromFirst(
             PlacementNew(m, new_data, i, Read(m, m.vec[v]._data, 0),
                          move_if_noexcept),
             v, new_data, i + 1, f)

\* RelocateLoop whose catch block frees new_data without destroying the
\* elements constructed in it.
RECURSIVE RelocateLoop_NoRollback(_, _, _, _, _)
RelocateLoop_NoRollback(m, v, new_data, i, f) ==
    IF i >= m.vec[v]._size THEN m
    ELSE IF move_if_noexcept = "copy" /\ f.copyAt = i + 1
    THEN Throw(OperatorDelete(m, new_data), "copy")
    ELSE RelocateLoop_NoRollback(
             PlacementNew(m, new_data, i, Read(m, m.vec[v]._data, i),
                          move_if_noexcept),
             v, new_data, i + 1, f)

\* reallocate, lines 402-417: construct the elements i.. of v in new_data;
\* when the copy of one throws, destroy what was constructed, free new_data.
RECURSIVE RelocateLoop(_, _, _, _, _)
RelocateLoop(m, v, new_data, i, f) ==
    IF i >= m.vec[v]._size THEN m
    ELSE IF move_if_noexcept = "copy" /\ f.copyAt = i + 1
    THEN Throw(OperatorDelete(DestroyRange(m, new_data, 0, i), new_data), "copy")
    ELSE RelocateLoop(
             [PlacementNew(m, new_data, i, Read(m, m.vec[v]._data, i),
                           move_if_noexcept)
                 EXCEPT !.log.order = Append(@, i)],
             v, new_data, i + 1, f)

\* reallocate that adopts the new capacity before the allocation.
reallocate_CapacityFirst(m, v, new_capacity, f) ==
    LET m0 == [m EXCEPT !.vec[v]._capacity = new_capacity]
        m1 == OperatorNew(m0, new_capacity, f.oom)
    IN  IF m1.exc # "none" THEN m1
        ELSE LET new_data == m1.ptr
                 m2 == RelocateLoop(m1, v, new_data, 0, f)
             IN  IF m2.exc # "none" THEN m2
                 ELSE LET old == m2.vec[v]._data
                          m3 == DestroyRange(m2, old, 0, m2.vec[v]._size)
                          m4 == OperatorDelete(m3, old)
                      IN  [m4 EXCEPT !.vec[v]._data = new_data]

reallocate(m, v, new_capacity, f) ==
    LET m1 == OperatorNew(m, new_capacity, f.oom)
    IN  IF m1.exc # "none" THEN m1
        ELSE LET new_data == m1.ptr
                 m2 == RelocateLoop(m1, v, new_data, 0, f)
             IN  IF m2.exc # "none" THEN m2
                 ELSE LET old == m2.vec[v]._data
                          m3 == DestroyRange(m2, old, 0, m2.vec[v]._size)
                          m4 == OperatorDelete(m3, old)
                      IN  [m4 EXCEPT !.vec[v]._data = new_data,
                                     !.vec[v]._capacity = new_capacity]

\* Growth by one slot instead of doubling.
new_capacity_of_PlusOne(c) == c + 1

\* The capacity ensure_capacity grows to.
new_capacity_of(c) == IF c = 0 THEN 1 ELSE c * 2

\* ensure_capacity growing only once size has passed capacity.
ensure_capacity_TooLate(m, v, f) ==
    IF m.vec[v]._size > m.vec[v]._capacity
    THEN reallocate(m, v, new_capacity_of(m.vec[v]._capacity), f)
    ELSE m

ensure_capacity(m, v, f) ==
    IF m.vec[v]._size = m.vec[v]._capacity
    THEN reallocate(m, v, new_capacity_of(m.vec[v]._capacity), f)
    ELSE m

\* ------------------------------------------------------- public members
\* CopyLoop whose catch block frees the buffer without destroying the copies
\* made so far.
RECURSIVE CopyLoop_KeepsCopies(_, _, _, _)
CopyLoop_KeepsCopies(m, v, other, f) ==
    LET n == m.vec[v]._size
        d == m.vec[v]._data
    IN  IF n >= m.vec[other]._size THEN m
        ELSE IF f.copyAt = n + 1
        THEN LET m1 == OperatorDelete(m, d)
             IN  Throw([m1 EXCEPT !.vec[v] = NoVector], "copy")
        ELSE LET m1 == PlacementNew(m, d, n, Read(m, m.vec[other]._data, n), "copy")
             IN  CopyLoop_KeepsCopies([m1 EXCEPT !.vec[v]._size = n + 1], v, other, f)

\* Vector(const Vector& other), constructing object v.
RECURSIVE CopyLoop(_, _, _, _)
CopyLoop(m, v, other, f) ==
    LET n == m.vec[v]._size
        d == m.vec[v]._data
    IN  IF n >= m.vec[other]._size THEN m
        ELSE IF f.copyAt = n + 1
        THEN LET m1 == OperatorDelete(DestroyRange(m, d, 0, n), d)
             IN  Throw([m1 EXCEPT !.vec[v] = NoVector], "copy")
        ELSE LET m1 == PlacementNew(m, d, n, Read(m, m.vec[other]._data, n), "copy")
             IN  CopyLoop([m1 EXCEPT !.vec[v]._size = n + 1], v, other, f)

\* A copy constructor that takes the source's buffer instead of copying it.
CopyCtor_Shallow(m, v, other, f) ==
    [m EXCEPT !.vec[v] = [alive |-> TRUE, _capacity |-> m.vec[other]._size,
                          _size |-> m.vec[other]._size,
                          _data |-> m.vec[other]._data]]

CopyCtor(m, v, other, f) ==
    LET cap == m.vec[other]._size
        m0 == [m EXCEPT !.vec[v] = [alive |-> TRUE, _capacity |-> cap,
                                    _size |-> 0, _data |-> NullPtr]]
    IN  IF cap > 0
        THEN LET m1 == OperatorNew(m0, cap, f.oom)
             IN  IF m1.exc # "none"
                 THEN [m1 EXCEPT !.vec[v] = NoVector]
                 ELSE CopyLoop([m1 EXCEPT !.vec[v]._data = m1.ptr], v, other, f)
        ELSE m0

\* A move constructor that leaves the source its buffer.
MoveCtor_KeepsSource(m, v, other) ==
    [m EXCEPT !.vec[v] = [alive |-> TRUE,
                          _capacity |-> m.vec[other]._capacity,
                          _size |-> m.vec[other]._size,
                          _data |-> m.vec[other]._data]]

\* Vector(Vector&& other) noexcept, constructing object v.
MoveCtor(m, v, other) ==
    [m EXCEPT !.vec[v] = [alive |-> TRUE,
                          _capacity |-> m.vec[other]._capacity,
                          _size |-> m.vec[other]._size,
                          _data |-> m.vec[other]._data],
              !.vec[other]._data = NullPtr,
              !.vec[other]._size = 0,
              !.vec[other]._capacity = 0]

\* swap that exchanges buffer and capacity but leaves each size in place.
swap_KeepsSizes(m, v, other) ==
    [m EXCEPT !.vec[v]._data = m.vec[other]._data,
              !.vec[other]._data = m.vec[v]._data,
              !.vec[v]._capacity = m.vec[other]._capacity,
              !.vec[other]._capacity = m.vec[v]._capacity]

\* void swap(Vector& other) noexcept
swap(m, v, other) ==
    [m EXCEPT !.vec[v]._data = m.vec[other]._data,
              !.vec[other]._data = m.vec[v]._data,
              !.vec[v]._size = m.vec[other]._size,
              !.vec[other]._size = m.vec[v]._size,
              !.vec[v]._capacity = m.vec[other]._capacity,
              !.vec[other]._capacity = m.vec[v]._capacity]

\* ~Vector()
Dtor(m, v) ==
    LET m1 == DestroyRange(m, m.vec[v]._data, 0, m.vec[v]._size)
        m2 == OperatorDelete(m1, m1.vec[v]._data)
    IN  [m2 EXCEPT !.vec[v] = NoVector]

\* Vector& operator=(const Vector& other): copy into temp, swap, destroy temp.
CopyAssign(m, v, other, f) ==
    IF v # other
    THEN LET m1 == CopyCtor(m, "temp", other, f)
         IN  IF m1.exc # "none" THEN m1
             ELSE Dtor(swap(m1, v, "temp"), "temp")
    ELSE m

\* clear() that also gives the buffer back, as the destructor does.
clear_Release(m, v) ==
    LET m1 == DestroyRange(m, m.vec[v]._data, 0, m.vec[v]._size)
        m2 == OperatorDelete(m1, m1.vec[v]._data)
    IN  [m2 EXCEPT !.vec[v]._size = 0, !.vec[v]._capacity = 0,
                   !.vec[v]._data = NullPtr]

\* void clear()
clear(m, v) ==
    LET m1 == DestroyRange(m, m.vec[v]._data, 0, m.vec[v]._size)
    IN  [m1 EXCEPT !.vec[v]._size = 0]

\* Move assignment that frees the old buffer without clear().
MoveAssign_NoClear(m, v, other) ==
    IF v # other
    THEN LET m2 == OperatorDelete(m, m.vec[v]._data)
         IN  [m2 EXCEPT !.vec[v]._data = m2.vec[other]._data,
                        !.vec[v]._size = m2.vec[other]._size,
                        !.vec[v]._capacity = m2.vec[other]._capacity,
                        !.vec[other]._data = NullPtr,
                        !.vec[other]._size = 0,
                        !.vec[other]._capacity = 0]
    ELSE m

\* Move assignment without the this != &other test.
MoveAssign_NoSelfCheck(m, v, other) ==
    LET m1 == clear(m, v)
        m2 == OperatorDelete(m1, m1.vec[v]._data)
        m3 == [m2 EXCEPT !.vec[v]._data = m2.vec[other]._data,
                         !.vec[v]._size = m2.vec[other]._size,
                         !.vec[v]._capacity = m2.vec[other]._capacity]
    IN  [m3 EXCEPT !.vec[other]._data = NullPtr,
                   !.vec[other]._size = 0,
                   !.vec[other]._capacity = 0]

\* Vector& operator=(Vector&& other) noexcept
MoveAssign(m, v, other) ==
    IF v # other
    THEN LET m1 == clear(m, v)
             m2 == OperatorDelete(m1, m1.vec[v]._data)
         IN  [m2 EXCEPT !.vec[v]._data = m2.vec[other]._data,
                        !.vec[v]._size = m2.vec[other]._size,
                        !.vec[v]._capacity = m2.vec[other]._capacity,
                        !.vec[other]._data = NullPtr,
                        !.vec[other]._size = 0,
                        !.vec[other]._capacity = 0]
    ELSE m

\* operator[] that lets index == size() through.
Subscript_OffByOne(m, v, index) ==
    IF index > m.vec[v]._size
    THEN Throw(m, "out_of_range")
    ELSE [m EXCEPT !.ref = <<m.vec[v]._data, index>>]

\* reference operator[](size_type index), and its const overload
Subscript(m, v, index) ==
    IF index >= m.vec[v]._size
    THEN Throw(m, "out_of_range")
    ELSE [m EXCEPT !.ref = <<m.vec[v]._data, index>>]

SubscriptConst(m, v, index) ==
    IF index >= m.vec[v]._size
    THEN Throw(m, "out_of_range")
    ELSE [m EXCEPT !.ref = <<m.vec[v]._data, index>>]

\* void push_back(const T& value)
push_back(m, v, value, f) ==
    LET m1 == ensure_capacity(m, v, f)
    IN  IF m1.exc # "none" THEN m1
        ELSE IF f.newThrows THEN Throw(m1, "new")
        ELSE LET m2 == PlacementNew(m1, m1.vec[v]._data, m1.vec[v]._size,
                                    value, "copy")
             IN  [m2 EXCEPT !.vec[v]._size = @ + 1]

\* push_back(const T& value) where value is the reference ref to an element
\* of v itself: ensure_capacity() runs first, and the copy constructor then
\* reads through ref. When the reallocation has destroyed that element and
\* freed its buffer, the read is undefined and yields any value (garbage).
push_back_ref(m, v, ref, garbage, f) ==
    LET m1 == ensure_capacity(m, v, f)
    IN  IF m1.exc # "none" THEN m1
        ELSE IF f.newThrows THEN Throw(m1, "new")
        ELSE LET live == IsLive(m1, ref[1], ref[2])
                 value == IF live THEN Read(m1, ref[1], ref[2]) ELSE garbage
                 m2 == IF live THEN m1 ELSE Bump(m1, "badAccess")
                 m3 == PlacementNew(m2, m2.vec[v]._data, m2.vec[v]._size,
                                    value, "copy")
             IN  [m3 EXCEPT !.vec[v]._size = @ + 1]

\* void push_back(T&& value)
push_back_move(m, v, value, f) ==
    LET m1 == ensure_capacity(m, v, f)
    IN  IF m1.exc # "none" THEN m1
        ELSE IF f.newThrows THEN Throw(m1, "new")
        ELSE LET m2 == PlacementNew(m1, m1.vec[v]._data, m1.vec[v]._size,
                                    value, "move")
             IN  [m2 EXCEPT !.vec[v]._size = @ + 1]

\* reference emplace_back(Args&&... args)
emplace_back(m, v, value, f) ==
    LET m1 == ensure_capacity(m, v, f)
    IN  IF m1.exc # "none" THEN m1
        ELSE IF f.newThrows THEN Throw(m1, "new")
        ELSE LET m2 == PlacementNew(m1, m1.vec[v]._data, m1.vec[v]._size,
                                    value, "args")
                 m3 == [m2 EXCEPT !.vec[v]._size = @ + 1]
             IN  [m3 EXCEPT !.ref = <<m3.vec[v]._data, m3.vec[v]._size - 1>>]

\* pop_back without the size check of line 303.
pop_back_Unchecked(m, v) ==
    LET m1 == DestroyAt(m, m.vec[v]._data, m.vec[v]._size - 1)
    IN  [m1 EXCEPT !.vec[v]._size = @ - 1]

\* void pop_back()
pop_back(m, v) ==
    IF m.vec[v]._size > 0
    THEN LET m1 == DestroyAt(m, m.vec[v]._data, m.vec[v]._size - 1)
         IN  [m1 EXCEPT !.vec[v]._size = @ - 1]
    ELSE m

\* reserve that reallocates also when new_cap equals the capacity.
reserve_AlsoWhenEqual(m, v, new_cap, f) ==
    IF new_cap < m.vec[v]._size THEN m
    ELSE IF new_cap >= m.vec[v]._capacity THEN reallocate(m, v, new_cap, f)
    ELSE m

\* reserve that reallocates to new_cap whenever it differs from the capacity.
reserve_ShrinkToFit(m, v, new_cap, f) ==
    IF new_cap < m.vec[v]._size THEN m
    ELSE IF new_cap # m.vec[v]._capacity THEN reallocate(m, v, new_cap, f)
    ELSE m

\* void reserve(size_type new_cap)
reserve(m, v, new_cap, f) ==
    IF new_cap < m.vec[v]._size THEN m
    ELSE IF new_cap > m.vec[v]._capacity THEN reallocate(m, v, new_cap, f)
    ELSE m

\* resize, lines 337-351: default-construct slots i.. ; when one throws,
\* run the destructor on every slot of [curr_size, new_size) and rethrow.
RECURSIVE ResizeLoop(_, _, _, _, _, _)
ResizeLoop(m, v, i, curr_size, new_size, f) ==
    IF i >= new_size THEN m
    ELSE IF f.dfltAt = (i - curr_size) + 1
    THEN Throw(DestroyRange(m, m.vec[v]._data, curr_size, new_size), "dflt")
    ELSE ResizeLoop(PlacementNew(m, m.vec[v]._data, i, DefaultVal, "dflt"),
                    v, i + 1, curr_size, new_size, f)

\* resize whose shrink lowers the size without running the destructors.
resize_ShrinkKeepsObjects(m, v, new_size, f) ==
    LET curr_size == m.vec[v]._size
    IN  IF curr_size < new_size
        THEN LET m1 == reserve(m, v, new_size, f)
             IN  IF m1.exc # "none" THEN m1
                 ELSE LET m2 == ResizeLoop(m1, v, curr_size, curr_size, new_size, f)
                      IN  IF m2.exc # "none" THEN m2
                          ELSE [m2 EXCEPT !.vec[v]._size = new_size]
        ELSE [m EXCEPT !.vec[v]._size = new_size]

\* void resize(size_type new_size)
resize(m, v, new_size, f) ==
    LET curr_size == m.vec[v]._size
    IN  IF curr_size > new_size
        THEN LET m1 == DestroyRange(m, m.vec[v]._data, new_size, m.vec[v]._size)
             IN  [m1 EXCEPT !.vec[v]._size = new_size]
        ELSE IF curr_size < new_size
        THEN LET m1 == reserve(m, v, new_size, f)
             IN  IF m1.exc # "none" THEN m1
                 ELSE LET m2 == ResizeLoop(m1, v, curr_size, curr_size, new_size, f)
                      IN  IF m2.exc # "none" THEN m2
                          ELSE [m2 EXCEPT !.vec[v]._size = new_size]
        ELSE [m EXCEPT !.vec[v]._size = new_size]

\* ------------------------------------------------------------- observers
size(v) == vec[v]._size
capacity(v) == vec[v]._capacity
empty(v) == vec[v]._size = 0
data(v) == vec[v]._data
\* iterator(_data) and iterator(_data + _size): a pointer is block and offset.
begin(v) == <<vec[v]._data, 0>>

\* end() that points one past the capacity instead of one past the size.
end_AtCapacity(v) == <<vec[v]._data, vec[v]._capacity>>

end(v) == <<vec[v]._data, vec[v]._size>>
\* const_iterator begin() const, end() const, cbegin() const, cend() const
begin_const(v) == <<vec[v]._data, 0>>
end_const(v) == <<vec[v]._data, vec[v]._size>>
cbegin(v) == <<vec[v]._data, 0>>
cend(v) == <<vec[v]._data, vec[v]._size>>

\* VectorIterator: operator++ steps the pointer, operator* reads what it
\* points to, operator== and operator!= compare the pointers.
Increment(it) == <<it[1], it[2] + 1>>
Dereference(hp, it) == Read(Machine(vec, hp), it[1], it[2])
IteratorEq(it, other) == it = other
IteratorNe(it, other) == it # other

\* for (it = first; it != stop; ++it) collect *it. A cursor that has left
\* the buffer without meeting stop is followed for MaxSlots + 1 steps.
RECURSIVE RangeFor(_, _, _, _)
RangeFor(hp, it, stop, seen) ==
    IF IteratorNe(it, stop) /\ Len(seen) <= MaxSlots
    THEN RangeFor(hp, Increment(it), stop, Append(seen, Dereference(hp, it)))
    ELSE seen

\* What operator[] reads at 0..size()-1 of container v in members vs, heap hp.
ElemsOf(vs, hp, v) ==
    [i \in 1..vs[v]._size |->
        LET m == Subscript(Machine(vs, hp), v, i - 1)
        IN  IF m.exc = "none" THEN Read(m, m.ref[1], m.ref[2]) ELSE Raw]

Elems(v) == ElemsOf(vec, heap, v)

\* ----------------------------------------------------------------- steps
Idle ==
    [op |-> "idle", v |-> "a", other |-> "a", arg |-> 0, exc |-> "none",
     log |-> ZeroLog,
     ref |-> <<NullPtr, 0>>, out |-> <<>>,
     cmp |-> [left |-> <<NullPtr, 0>>, right |-> <<NullPtr, 0>>,
              fresh |-> TRUE, eq |-> TRUE],
     pre |-> [vec |-> [o \in Objs |-> NoVector],
              heap |-> [p \in Addrs |-> FreeBlock],
              abs |-> [v \in Vecs |-> <<>>]]]

\* No cursor held. A held cursor is its pointer, the container it was taken
\* from, and whether the buffer it points into has not been freed since.
NoCursor == [set |-> FALSE, ptr |-> <<NullPtr, 0>>, fresh |-> TRUE, from |-> "a"]

\* The held cursor after a call that freed the blocks in freed.
Aged(k, freed) ==
    IF k.set /\ k.ptr[1] \in freed THEN [k EXCEPT !.fresh = FALSE] ELSE k

Init ==
    /\ vec = [o \in Objs |-> IF o = "a" THEN DefaultCtor ELSE NoVector]
    /\ heap = [p \in Addrs |-> FreeBlock]
    /\ abs = [v \in Vecs |-> <<>>]
    /\ noexceptMove \in BOOLEAN
    /\ last = Idle
    /\ held = NoCursor

\* The capacities of the containers of vs, summed.
RECURSIVE SumCap(_, _)
SumCap(vs, S) ==
    IF S = {} THEN 0
    ELSE LET o == CHOOSE x \in S : TRUE
         IN  vs[o]._capacity + SumCap(vs, S \ {o})

\* The call op(arg) on v (with other) ran as m; newAbs is what it makes of abs.
\* last keeps the outcome and the members, heap and abs the call started from.
Finish(op, v, other, arg, m, newAbs) ==
    /\ last.op = "idle"
    /\ SumCap(m.vec, Objs) <= MaxSlots
    /\ vec' = m.vec
    /\ heap' = m.heap
    /\ abs' = IF m.exc = "none" THEN newAbs ELSE abs
    /\ last' = [op |-> op, v |-> v, other |-> other, arg |-> arg, exc |-> m.exc,
                log |-> m.log, ref |-> m.ref, out |-> <<>>, cmp |-> Idle.cmp,
                pre |-> [vec |-> vec, heap |-> heap, abs |-> abs]]
    /\ held' = Aged(held, m.freed)
    /\ UNCHANGED noexceptMove

\* The caller has taken the outcome of the call (its return value or the
\* exception it caught) and goes on to its next call.
Return ==
    /\ last.op # "idle"
    /\ last' = Idle
    /\ UNCHANGED <<vec, heap, abs, noexceptMove, held>>

Alive(v) == vec[v].alive

\* The faults of a growing call on a container of n elements.
GrowFaults(n) ==
    {f \in Faults : f.dfltAt = 0 /\ ~f.newThrows /\ f.copyAt <= n
                    /\ (f.copyAt > 0 => ~noexceptMove)}

\* The faults of an append: those of growing, or the new element's throw.
AppendFaults(n) == GrowFaults(n) \cup {[NoFault EXCEPT !.newThrows = TRUE]}

\* The faults of copying a container of n elements.
CopyFaults(n) ==
    {f \in Faults : f.dfltAt = 0 /\ ~f.newThrows /\ f.copyAt <= n}

Construct(v) ==
    /\ ~Alive(v)
    /\ Finish("ctor", v, v, 0, [Machine(vec, heap) EXCEPT !.vec[v] = DefaultCtor],
              [abs EXCEPT ![v] = <<>>])

CopyConstruct(v, other) ==
    /\ ~Alive(v) /\ Alive(other)
    /\ \E f \in CopyFaults(size(other)) :
          Finish("copy_ctor", v, other, 0, CopyCtor(Machine(vec, heap), v, other, f),
                 [abs EXCEPT ![v] = abs[other]])

MoveConstruct(v, other) ==
    /\ ~Alive(v) /\ Alive(other)
    /\ Finish("move_ctor", v, other, 0, MoveCtor(Machine(vec, heap), v, other),
              [abs EXCEPT ![v] = abs[other], ![other] = <<>>])

Destroy(v) ==
    /\ Alive(v)
    /\ Finish("dtor", v, v, 0, Dtor(Machine(vec, heap), v), [abs EXCEPT ![v] = <<>>])

CopyAssignment(v, other) ==
    /\ Alive(v) /\ Alive(other)
    /\ \E f \in CopyFaults(size(other)) :
          Finish("copy_assign", v, other, 0,
                 CopyAssign(Machine(vec, heap), v, other, f),
                 [abs EXCEPT ![v] = abs[other]])

MoveAssignment(v, other) ==
    /\ Alive(v) /\ Alive(other)
    /\ Finish("move_assign", v, other, 0, MoveAssign(Machine(vec, heap), v, other),
              IF v = other THEN abs
              ELSE [abs EXCEPT ![v] = abs[other], ![other] = <<>>])

Swap(v, other) ==
    /\ Alive(v) /\ Alive(other)
    /\ Finish("swap", v, other, 0, swap(Machine(vec, heap), v, other),
              [abs EXCEPT ![v] = abs[other], ![other] = abs[v]])

PushBack(v) ==
    /\ Alive(v)
    /\ \E x \in Val, f \in AppendFaults(size(v)) :
          Finish("push_back", v, v, x, push_back(Machine(vec, heap), v, x, f),
                 [abs EXCEPT ![v] = Append(@, x)])

PushBackMove(v) ==
    /\ Alive(v)
    /\ \E x \in Val, f \in AppendFaults(size(v)) :
          /\ f.newThrows => ~noexceptMove
          /\ Finish("push_back_move", v, v, x,
                    push_back_move(Machine(vec, heap), v, x, f),
                    [abs EXCEPT ![v] = Append(@, x)])

EmplaceBack(v) ==
    /\ Alive(v)
    /\ \E x \in Val, f \in AppendFaults(size(v)) :
          Finish("emplace_back", v, v, x, emplace_back(Machine(vec, heap), v, x, f),
                 [abs EXCEPT ![v] = Append(@, x)])

PopBack(v) ==
    /\ Alive(v)
    /\ Finish("pop_back", v, v, 0, pop_back(Machine(vec, heap), v),
              [abs EXCEPT ![v] = IF Len(@) > 0 THEN SubSeq(@, 1, Len(@) - 1) ELSE @])

Clear(v) ==
    /\ Alive(v)
    /\ Finish("clear", v, v, 0, clear(Machine(vec, heap), v), [abs EXCEPT ![v] = <<>>])

Reserve(v) ==
    /\ Alive(v)
    /\ \E n \in 0..MaxSlots, f \in GrowFaults(size(v)) :
          Finish("reserve", v, v, n, reserve(Machine(vec, heap), v, n, f), abs)

Resize(v) ==
    /\ Alive(v)
    /\ \E n \in 0..MaxSlots, f \in GrowFaults(size(v)) \cup
                                {g \in Faults : g.dfltAt > 0} :
          /\ f.dfltAt <= n - size(v) \/ f.dfltAt = 0
          /\ Finish("resize", v, v, n, resize(Machine(vec, heap), v, n, f),
                    [abs EXCEPT ![v] =
                        IF n <= Len(@) THEN SubSeq(@, 1, n)
                        ELSE @ \o [i \in 1..(n - Len(@)) |-> DefaultVal]])

\* vec.push_back(vec[index]): operator[] returns the reference, push_back
\* takes it. abs takes the value the copy constructor was given.
PushBackElement(v) ==
    /\ Alive(v)
    /\ \E index \in 0..(size(v) - 1), garbage \in Val, f \in AppendFaults(size(v)) :
          LET m0 == Subscript(Machine(vec, heap), v, index)
              m == push_back_ref(m0, v, m0.ref, garbage, f)
          IN  Finish("push_back_element", v, v, index, m,
                     [abs EXCEPT ![v] =
                         Append(@, Read(m, m.vec[v]._data, m.vec[v]._size - 1))])

\* vec[index] on a mutable container
At(v) ==
    /\ Alive(v)
    /\ \E index \in 0..MaxSlots :
          Finish("at", v, v, index, Subscript(Machine(vec, heap), v, index), abs)

\* vec[index] on a const container
AtConst(v) ==
    /\ Alive(v)
    /\ \E index \in 0..MaxSlots :
          Finish("at_const", v, v, index, SubscriptConst(Machine(vec, heap), v, index), abs)

\* vec[index] = x: the element the reference names is assigned
Assign(v) ==
    /\ Alive(v)
    /\ \E index \in 0..MaxSlots, x \in Val :
          LET m == Subscript(Machine(vec, heap), v, index)
          IN  Finish("assign", v, v, index,
                     IF m.exc = "none" THEN Write(m, m.ref, x) ELSE m,
                     [abs EXCEPT ![v][index + 1] = x])

\* for (value : vec), and the same loop over the read-only cursors:
\* which = 0 for begin()/end(), 1 for their const overloads, 2 for
\* cbegin()/cend().
Traverse(v) ==
    /\ Alive(v)
    /\ last.op = "idle"
    /\ \E which \in 0..2 :
          LET first == CASE which = 0 -> begin(v)
                         [] which = 1 -> begin_const(v)
                         [] OTHER -> cbegin(v)
              stop == CASE which = 0 -> end(v)
                        [] which = 1 -> end_const(v)
                        [] OTHER -> cend(v)
          IN  last' = [Idle EXCEPT !.op = "traverse", !.v = v, !.other = v,
                                   !.arg = which,
                                   !.out = RangeFor(heap, first, stop, <<>>),
                                   !.pre = [vec |-> vec, heap |-> heap,
                                            abs |-> abs]]
    /\ UNCHANGED <<vec, heap, abs, noexceptMove, held>>

Next ==
    \/ \E v \in Vecs : Construct(v)
    \/ \E v \in Vecs : Destroy(v)
    \/ \E v \in Vecs : \E other \in Vecs \ {v} : CopyConstruct(v, other)
    \/ \E v \in Vecs : \E other \in Vecs \ {v} : MoveConstruct(v, other)
    \/ \E v \in Vecs, other \in Vecs : CopyAssignment(v, other)
    \/ \E v \in Vecs, other \in Vecs : MoveAssignment(v, other)
    \/ \E v \in Vecs, other \in Vecs : Swap(v, other)
    \/ \E v \in Vecs : PushBack(v)
    \/ \E v \in Vecs : PushBackMove(v)
    \/ \E v \in Vecs : EmplaceBack(v)
    \/ \E v \in Vecs : PushBackElement(v)
    \/ \E v \in Vecs : PopBack(v)
    \/ \E v \in Vecs : Clear(v)
    \/ \E v \in Vecs : Reserve(v)
    \/ \E v \in Vecs : Resize(v)
    \/ \E v \in Vecs : At(v)
    \/ \E v \in Vecs : AtConst(v)
    \/ \E v \in Vecs : Assign(v)
    \/ \E v \in Vecs : Traverse(v)
    \/ Return

Spec == Init /\ [][Next]_vars

\* ---------------------------------------------------------- held cursors
\* p == q on pointers, as the set of results a build may give: pointers into
\* one buffer are equal when their offsets are; a pointer one past the end of
\* a buffer against the start of another is unspecified; others differ.
PastTheEnd(hp, p) ==
    /\ p[1] # NullPtr
    /\ hp[p[1]].used
    /\ p[2] = Cardinality(DOMAIN hp[p[1]].slots)

AtStart(hp, p) == p[1] # NullPtr /\ hp[p[1]].used /\ p[2] = 0

\* Pointer equality that looks at the buffer only.
PointerEq_BufferOnly(hp, p, q) == {p[1] = q[1]}

PointerEq(hp, p, q) ==
    IF p[1] = q[1] THEN {p[2] = q[2]}
    ELSE IF \/ PastTheEnd(hp, p) /\ AtStart(hp, q)
            \/ PastTheEnd(hp, q) /\ AtStart(hp, p)
    THEN BOOLEAN
    ELSE {FALSE}

\* auto it = v.begin(); ++it (i times, up to end()): the caller keeps it.
Keep(v) ==
    /\ Alive(v)
    /\ last.op = "idle"
    /\ \E i \in 0..size(v) :
          held' = [set |-> TRUE, ptr |-> <<data(v), i>>, fresh |-> TRUE, from |-> v]
    /\ UNCHANGED <<vec, heap, abs, noexceptMove, last>>

\* it == w.begin() + j for the held cursor it.
Compare(w) ==
    /\ Alive(w)
    /\ last.op = "idle"
    /\ held.set
    /\ \E j \in 0..size(w) :
          \E r \in PointerEq(heap, held.ptr, <<data(w), j>>) :
             last' = [Idle EXCEPT !.op = "compare", !.v = held.from, !.other = w,
                                  !.arg = j,
                                  !.cmp = [left |-> held.ptr,
                                           right |-> <<data(w), j>>,
                                           fresh |-> held.fresh, eq |-> r],
                                  !.pre = [vec |-> vec, heap |-> heap,
                                           abs |-> abs]]
    /\ UNCHANGED <<vec, heap, abs, noexceptMove, held>>

\* The calls that hand a buffer out, pass it on or give it back, and the
\* caller's use of a cursor between them.
NextCursors ==
    \/ \E v \in Vecs : Construct(v)
    \/ \E v \in Vecs : Destroy(v)
    \/ \E v \in Vecs, other \in Vecs : MoveAssignment(v, other)
    \/ \E v \in Vecs, other \in Vecs : Swap(v, other)
    \/ \E v \in Vecs : PushBack(v)
    \/ \E v \in Vecs : PopBack(v)
    \/ Return
    \/ \E v \in Vecs : Keep(v)
    \/ \E w \in Vecs : Compare(w)

SpecCursors == Init /\ [][NextCursors]_vars

\* ---------------------------------------------------------------- claims
Appends == {"push_back", "push_back_move", "emplace_back", "push_back_element"}

\* The container the last call was made on, now and when the call began.
Now == vec[last.v]
Before == last.pre.vec[last.v]

\* The elements operator[] read in container v when the last call began.
PreElems(v) == ElemsOf(last.pre.vec, last.pre.heap, v)

\* The objects alive in heap hp.
LiveObjects(hp) ==
    {<<p, i>> \in Addrs \X (0..MaxSlots) :
        hp[p].used /\ i \in DOMAIN hp[p].slots /\ hp[p].slots[i] # Raw}

\* Constructor runs of a call.
Constructed(log) == log.copy + log.move + log.dflt + log.args

\* C1: in every reachable state, also after a call that threw, size() is at
\* most capacity() for every container.
C1_SizeWithinCapacity ==
    \A o \in Objs : vec[o]._size <= vec[o]._capacity

\* C1 witness: an append grew the buffer and then threw, leaving a container
\* with elements.
C1_Witness ==
    /\ last.op \in Appends /\ last.exc = "new" /\ last.log.alloc = 1
    /\ Now._size > 0

C3_ReallocateRollsBack ==
    (last.op \in Appends /\ last.exc = "copy") =>
        /\ Now = Before
        /\ heap[Now._data] = last.pre.heap[Now._data]
        /\ Elems(last.v) = PreElems(last.v)
        /\ Constructed(last.log) = last.log.dtor
        /\ last.log.badDtor = 0 /\ last.log.leak = 0
        /\ last.log.alloc = 1 /\ last.log.free = 1
        /\ LiveObjects(heap) = LiveObjects(last.pre.heap)

\* C3 witness: the second copy of the reallocation threw, after one succeeded.
C3_Witness ==
    /\ last.op = "emplace_back" /\ last.exc = "copy"
    /\ last.log.copy = 1 /\ Now._size = 2

\* C4: when the constructor of the new element throws, push_back and
\* emplace_back leave size, capacity, buffer and elements as before the call,
\* also when the call had to grow first.
C4_AppendStrongGuarantee ==
    (last.op \in Appends /\ last.exc = "new") =>
        /\ Now = Before
        /\ Elems(last.v) = PreElems(last.v)

\* C5: when the k-th default construction of resize throws, the k-1 elements
\* constructed by the call are destroyed once each and the destructor runs on
\* no slot that was never constructed.
C5_ResizeRollsBackConstructed ==
    (last.op = "resize" /\ last.exc = "dflt") =>
        /\ last.log.dtor = last.log.dflt
        /\ last.log.badDtor = 0

\* The slots [0, size()) of the containers that exist.
ElementSlots ==
    UNION {{<<vec[o]._data, i>> : i \in 0..(vec[o]._size - 1)} :
              o \in {x \in Objs : vec[x].alive}}

\* C6: the objects alive are exactly the slots [0, size()) of the containers
\* that exist; no call leaks an object, destroys one twice or runs a
\* destructor or constructor where it must not; a destructed container
\* destroys exactly its size() elements.
C6_LiveObjectsAreTheElements ==
    /\ LiveObjects(heap) = ElementSlots
    /\ last.log.leak = 0 /\ last.log.badDtor = 0
    /\ last.log.badCtor = 0 /\ last.log.badFree = 0
    /\ last.op = "dtor" => last.log.dtor = Before._size

\* C7: a move between two containers leaves the source with size 0, capacity
\* 0 and begin() == end(); the destination has the source's size, capacity,
\* buffer and elements; no element is constructed; move assignment destroys
\* each previous element of the destination once.
C7_MoveTransfersOwnership ==
    (last.op \in {"move_ctor", "move_assign"} /\ last.v # last.other) =>
        LET src == vec[last.other]
            was == last.pre.vec[last.other]
        IN  /\ src._size = 0 /\ src._capacity = 0
            /\ begin(last.other) = end(last.other)
            /\ Now._size = was._size /\ Now._capacity = was._capacity
            /\ Now._data = was._data
            /\ Elems(last.v) = PreElems(last.other)
            /\ Constructed(last.log) = 0
            /\ last.op = "move_assign" =>
                  /\ last.log.dtor = Before._size
                  /\ last.log.badDtor = 0 /\ last.log.leak = 0

\* C7 witness: a move assignment of two elements over a container that held
\* one.
C7_Witness ==
    /\ last.op = "move_assign" /\ last.v # last.other
    /\ Before._size = 1 /\ Now._size = 2

Mutators == Appends \cup {"assign", "pop_back", "clear"}

\* What C8 says of a copy but for the buffer address, and of a later mutation.
CopyEqualsSource ==
    /\ size(last.v) = size(last.other)
    /\ Elems(last.v) = Elems(last.other)
    /\ capacity(last.v) >= size(last.v)
    /\ vec[last.other] = last.pre.vec[last.other]
    /\ Elems(last.other) = PreElems(last.other)

MutationLeavesOthers ==
    last.op \in Mutators =>
        \A o \in Vecs \ {last.v} :
            /\ vec[o] = last.pre.vec[o]
            /\ Elems(o) = ElemsOf(last.pre.vec, last.pre.heap, o)

CopyMade ==
    last.op \in {"copy_ctor", "copy_assign"} /\ last.exc = "none"
    /\ last.v # last.other

\* C8 as stated: every copy has the source's size and elements and a buffer
\* address distinct from the source's, and mutating one container leaves the
\* other's size and elements unchanged.
C8_CopyHasDistinctBuffer ==
    /\ CopyMade => (CopyEqualsSource /\ data(last.v) # data(last.other))
    /\ MutationLeavesOthers

\* C8 amended: the copy of a non-empty source has a buffer address distinct
\* from the source's; the copy of an empty source has no buffer (data() is
\* null, as is the source's when its capacity is 0); the rest as stated.
C8_CopyIsIndependent ==
    /\ CopyMade =>
          /\ CopyEqualsSource
          /\ size(last.other) > 0 => data(last.v) # data(last.other)
          /\ size(last.other) = 0 => data(last.v) = NullPtr
    /\ MutationLeavesOthers

\* C8 witness: a copy assignment of two elements over a container that held
\* elements.
C8_Witness ==
    /\ last.op = "copy_assign" /\ last.exc = "none" /\ last.v # last.other
    /\ size(last.other) = 2 /\ Before._size > 0

\* C9: an append allocates only when size() == capacity() held before it;
\* the capacity is then 1 from 0 and twice the old capacity otherwise; with
\* size() < capacity() capacity and buffer address stay.
C9_GrowthPolicy ==
    last.op \in Appends =>
        /\ last.log.alloc > 0 => Before._size = Before._capacity
        /\ Before._size < Before._capacity =>
              /\ Now._capacity = Before._capacity
              /\ Now._data = Before._data
              /\ last.log.alloc = 0
        /\ (Before._size = Before._capacity /\ last.exc = "none") =>
              /\ Before._capacity = 0 => Now._capacity = 1
              /\ Before._capacity > 0 => Now._capacity = 2 * Before._capacity

\* C9 witness: an append on a full container of capacity 2.
C9_Witness ==
    /\ last.op = "push_back" /\ last.exc = "none"
    /\ Before._size = 2 /\ Before._capacity = 2 /\ Now._capacity = 4

\* C10: operator[] and its const overload throw out_of_range for every
\* index >= size() and change nothing; for index < size() they return a
\* reference to element index.
C10_SubscriptChecked ==
    last.op \in {"at", "at_const"} =>
        /\ vec = last.pre.vec /\ heap = last.pre.heap
        /\ last.arg >= Before._size => last.exc = "out_of_range"
        /\ last.arg < Before._size =>
              /\ last.exc = "none"
              /\ last.ref = <<Before._data, last.arg>>
              /\ <<Before._data, last.arg>> \in LiveObjects(heap)

\* C10 witness: the const overload called with index == size() on a
\* container with elements.
C10_Witness ==
    /\ last.op = "at_const" /\ last.exc = "out_of_range"
    /\ last.arg = Before._size /\ Before._size > 0

\* C11: pop_back() on a container with elements destroys exactly the element
\* at index size()-1 and lowers size() by one, capacity, buffer address and
\* the other elements staying as they were; on an empty container it changes
\* nothing and raises no error.
C11_PopBack ==
    last.op = "pop_back" =>
        /\ last.exc = "none"
        /\ Before._size > 0 =>
              /\ Now = [Before EXCEPT !._size = @ - 1]
              /\ \A o \in Objs \ {last.v} : vec[o] = last.pre.vec[o]
              /\ last.log = [ZeroLog EXCEPT !.dtor = 1]
              /\ <<Before._data, Before._size - 1>> \in LiveObjects(last.pre.heap)
              /\ heap = [last.pre.heap EXCEPT
                            ![Before._data].slots[Before._size - 1] = Raw]
              /\ Elems(last.v) = SubSeq(PreElems(last.v), 1, Before._size - 1)
        /\ Before._size = 0 =>
              /\ vec = last.pre.vec /\ heap = last.pre.heap
              /\ last.log = ZeroLog

\* C11 witness: pop_back() took the last of two elements.
C11_Witness ==
    /\ last.op = "pop_back" /\ Before._size = 2 /\ Now._size = 1
    /\ Now._data = Before._data

\* C12: clear() destroys exactly the size() elements the container held, each
\* once, and sets size() to 0 with capacity and buffer address as they were;
\* an append to a container that is empty with capacity() > 0, as one is
\* after clear(), allocates and frees nothing and keeps buffer and capacity.
C12_ClearKeepsBuffer ==
    /\ last.op = "clear" =>
          /\ last.exc = "none"
          /\ Now = [Before EXCEPT !._size = 0]
          /\ \A o \in Objs \ {last.v} : vec[o] = last.pre.vec[o]
          /\ last.log = [ZeroLog EXCEPT !.dtor = Before._size]
          /\ {Before._data} \X (0..(Before._size - 1)) \subseteq
                LiveObjects(last.pre.heap)
          /\ LiveObjects(heap) =
                LiveObjects(last.pre.heap) \
                    ({Before._data} \X (0..(Before._size - 1)))
          /\ \A p \in Addrs : heap[p].used = last.pre.heap[p].used
    /\ (last.op \in Appends /\ Before._size = 0 /\ Before._capacity > 0) =>
          /\ last.log.alloc = 0 /\ last.log.free = 0
          /\ Now._data = Before._data
          /\ Now._capacity = Before._capacity

\* C12 witness: clear() emptied a container of two elements.
C12_Witness ==
    /\ last.op = "clear" /\ Before._size = 2 /\ Now._size = 0
    /\ Now._capacity >= 2

\* C13: reserve(n) with n <= capacity() changes nothing; reserve(n) with
\* n > capacity() that returns leaves capacity() == n exactly; in both cases,
\* and when the call throws, size() and the elements in their order are as
\* before.
C13_Reserve ==
    last.op = "reserve" =>
        /\ last.arg <= Before._capacity =>
              /\ last.exc = "none"
              /\ vec = last.pre.vec /\ heap = last.pre.heap
              /\ last.log = ZeroLog
        /\ (last.arg > Before._capacity /\ last.exc = "none") =>
              /\ Now._capacity = last.arg
              /\ last.log.alloc = 1
        /\ Now._size = Before._size
        /\ Elems(last.v) = PreElems(last.v)
        /\ \A o \in Objs \ {last.v} : vec[o] = last.pre.vec[o]

\* C13 witness: reserve(4) on a container of two elements and capacity 2.
C13_Witness ==
    /\ last.op = "reserve" /\ last.exc = "none" /\ last.arg = 4
    /\ Before._capacity = 2 /\ Before._size = 2 /\ Now._capacity = 4
    /\ Now._data # Before._data

\* C14: a resize(n) that returns ends with size() == n and the first
\* min(old size, n) elements as they were. For n < old size it destroys
\* exactly the elements at [n, old size) and keeps capacity and buffer; for
\* n > old size capacity() >= n and the elements at [old size, n) are
\* default-constructed; for n == old size nothing changes.
C14_Resize ==
    (last.op = "resize" /\ last.exc = "none") =>
        LET old == Before._size
            n == last.arg
            kept == IF old < n THEN old ELSE n
        IN  /\ Now._size = n
            /\ \A i \in 1..kept : Elems(last.v)[i] = PreElems(last.v)[i]
            /\ \A o \in Objs \ {last.v} : vec[o] = last.pre.vec[o]
            /\ n < old =>
                  /\ Now = [Before EXCEPT !._size = n]
                  /\ last.log = [ZeroLog EXCEPT !.dtor = old - n]
                  /\ {Before._data} \X (n..(old - 1)) \subseteq
                        LiveObjects(last.pre.heap)
                  /\ LiveObjects(heap) =
                        LiveObjects(last.pre.heap) \
                            ({Before._data} \X (n..(old - 1)))
            /\ n > old =>
                  /\ Now._capacity >= n
                  /\ \A i \in (old + 1)..n : Elems(last.v)[i] = DefaultVal
                  /\ last.log.dflt = n - old
                  /\ last.log.dtor = last.log.copy + last.log.move
                  /\ last.log.badDtor = 0 /\ last.log.badCtor = 0
                  /\ last.log.leak = 0
            /\ n = old =>
                  /\ vec = last.pre.vec /\ heap = last.pre.heap
                  /\ last.log = ZeroLog

\* C14 witness: resize(3) on a container of one element and capacity 1, the
\* element not being the default value.
C14_Witness ==
    /\ last.op = "resize" /\ last.exc = "none" /\ last.arg = 3
    /\ Before._size = 1 /\ Before._capacity = 1
    /\ PreElems(last.v)[1] # DefaultVal
    /\ Now._size = 3

\* C15: swap exchanges buffer address, size and capacity of the two
\* containers, constructs and destroys no element, allocates and frees
\* nothing and never throws; each container then holds the other's former
\* elements at the other's former buffer address, so that a cursor taken from
\* one before the swap reads the elements the other holds after it.
C15_SwapExchanges ==
    last.op = "swap" =>
        /\ last.exc = "none"
        /\ last.log = ZeroLog
        /\ heap = last.pre.heap
        /\ vec[last.v] = last.pre.vec[last.other]
        /\ vec[last.other] = last.pre.vec[last.v]
        /\ \A o \in Objs \ {last.v, last.other} : vec[o] = last.pre.vec[o]
        /\ Elems(last.v) = PreElems(last.other)
        /\ Elems(last.other) = PreElems(last.v)
        /\ begin(last.other) = <<Before._data, 0>>
        /\ end(last.other) = <<Before._data, Before._size>>
        /\ \A i \in 0..(Before._size - 1) :
              Read(Machine(vec, heap), Before._data, i) = Elems(last.other)[i + 1]

\* C15 witness: two containers with buffers of different sizes were swapped.
C15_Witness ==
    /\ last.op = "swap" /\ last.v # last.other
    /\ Before._size = 1 /\ last.pre.vec[last.other]._size = 2
    /\ Now._size = 2
    /\ Now._data # NullPtr /\ vec[last.other]._data # NullPtr

\* C16: a loop from begin() that increments the cursor until it equals end(),
\* and the same loop over the read-only begin()/end() and cbegin()/cend(),
\* dereferences element i at its i-th step, in the order operator[] reads
\* them, and meets end() after exactly size() increments; begin() == end()
\* holds exactly when size() == 0.
C16_CursorsDelimitElements ==
    /\ last.op = "traverse" =>
          /\ Len(last.out) = Now._size
          /\ last.out = Elems(last.v)
          /\ last.out = abs[last.v]
          /\ vec = last.pre.vec /\ heap = last.pre.heap
    /\ \A v \in Vecs : Alive(v) =>
          /\ IteratorEq(begin(v), end(v)) <=> size(v) = 0
          /\ IteratorEq(begin_const(v), end_const(v)) <=> size(v) = 0
          /\ IteratorEq(cbegin(v), cend(v)) <=> size(v) = 0

\* C16 witness: the loop over begin()/end() went through three elements of a
\* buffer of capacity 4.
C16_Witness ==
    /\ last.op = "traverse" /\ last.arg = 0
    /\ Len(last.out) = 3 /\ Now._capacity = 4
    /\ last.out[1] # last.out[2]

\* C17: no push_back, emplace_back, pop_back, clear, reserve or resize on a
\* container, whether it returns or throws, leaves capacity() lower than it
\* was when the call began.
Growers == Appends \cup {"pop_back", "clear", "reserve", "resize"}

C17_CapacityNeverDecreases ==
    last.op \in Growers => Now._capacity >= Before._capacity

\* C17 witness: a resize that threw after it had grown the capacity.
C17_Witness ==
    /\ last.op = "resize" /\ last.exc = "dflt"
    /\ Before._capacity > 0 /\ Now._capacity > Before._capacity

\* The containers that hold the buffer at address p.
Owners(p) == {o \in Objs : vec[o].alive /\ vec[o]._data = p}

UsedBlocks(hp) == {p \in Addrs : hp[p].used}

\* C18: in every reachable state, each buffer allocated and not freed is held
\* by exactly one live container, no two live containers hold the same
\* non-null buffer, a freed or never allocated address is held by none, and
\* no call frees a buffer that is not allocated: the buffers allocated after
\* a call are those before it plus its allocations minus its frees.
C18_SingleOwner ==
    /\ \A p \in Addrs : heap[p].used <=> Cardinality(Owners(p)) = 1
    /\ \A p \in Addrs : Cardinality(Owners(p)) <= 1
    /\ \A o \in Objs : ~vec[o].alive => vec[o]._data = NullPtr
    /\ last.log.badFree = 0
    /\ last.op # "idle" =>
          Cardinality(UsedBlocks(heap)) =
             Cardinality(UsedBlocks(last.pre.heap)) + last.log.alloc
                - last.log.free

\* C18 witness: a copy assignment freed the target's old buffer while both
\* containers hold one.
C18_Witness ==
    /\ last.op = "copy_assign" /\ last.exc = "none" /\ last.log.free = 1
    /\ Now._data # NullPtr /\ vec[last.other]._data # NullPtr
    /\ Now._data # vec[last.other]._data
    /\ Before._data # NullPtr

\* The call cannot return without a new buffer.
NeedsAllocation ==
    \/ last.op \in Appends /\ Before._size = Before._capacity
    \/ last.op \in {"reserve", "resize"} /\ last.arg > Before._capacity
    \/ /\ last.op = "copy_assign" /\ last.v # last.other
       /\ last.pre.vec[last.other]._size > 0
    \/ last.op = "copy_ctor" /\ last.pre.vec[last.other]._size > 0

\* C19: when the allocation fails in push_back, emplace_back, reserve,
\* resize or copy assignment (or copy construction), the call ends with
\* bad_alloc and members, buffers and elements of every container are those
\* before the call; such a call returns only after a successful allocation.
C19_AllocationFailureChangesNothing ==
    /\ last.exc = "bad_alloc" =>
          /\ NeedsAllocation
          /\ vec = last.pre.vec /\ heap = last.pre.heap
          /\ Elems(last.v) = PreElems(last.v)
          /\ last.log = ZeroLog
    /\ (NeedsAllocation /\ last.exc = "none") => last.log.alloc = 1

\* C19 witness: push_back on a full container of two elements met bad_alloc.
C19_Witness ==
    /\ last.op = "push_back" /\ last.exc = "bad_alloc"
    /\ Before._size = 2 /\ Before._capacity = 2

\* C20: when the copy of an element throws in copy construction or copy
\* assignment, every copy made so far is destroyed exactly once and the new
\* buffer is freed, the source is as before, and the target of a copy
\* assignment keeps its size, capacity, buffer and elements.
C20_CopyFailureRollsBack ==
    (last.op \in {"copy_ctor", "copy_assign"} /\ last.exc = "copy") =>
        /\ last.log.dtor = last.log.copy
        /\ last.log.badDtor = 0 /\ last.log.leak = 0 /\ last.log.badFree = 0
        /\ last.log.alloc = 1 /\ last.log.free = 1
        /\ vec = last.pre.vec /\ heap = last.pre.heap
        /\ Elems(last.other) = PreElems(last.other)
        /\ last.op = "copy_assign" =>
              /\ Now = Before
              /\ Elems(last.v) = PreElems(last.v)

\* C20 witness: the second element copy threw in a copy assignment to a
\* container with elements.
C20_Witness ==
    /\ last.op = "copy_assign" /\ last.exc = "copy" /\ last.log.copy = 1
    /\ Before._size > 0

\* C21: a copy assignment or a move assignment of a container to itself
\* returns with size, capacity, buffer address and elements as they were and
\* has run no constructor, no destructor, no allocation and no free.
C21_SelfAssignment ==
    (last.op \in {"copy_assign", "move_assign"} /\ last.v = last.other) =>
        /\ last.exc = "none"
        /\ Now = Before
        /\ vec = last.pre.vec /\ heap = last.pre.heap
        /\ Elems(last.v) = PreElems(last.v)
        /\ last.log = ZeroLog

\* C21 witness: a container of two elements was move-assigned to itself.
C21_Witness ==
    /\ last.op = "move_assign" /\ last.v = last.other
    /\ Before._size = 2 /\ Now._size = 2

\* The held cursor and the cursor it was compared with reference the same
\* slot of the same buffer generation: the same address in a buffer not
\* freed since the held cursor was taken or, for cursors of containers
\* without a buffer, the same container.
SameSlotSameGeneration ==
    IF last.cmp.left[1] = NullPtr
    THEN last.cmp.right[1] = NullPtr /\ last.v = last.other
    ELSE last.cmp.left = last.cmp.right /\ last.cmp.fresh

\* C22 as stated: two cursors compare equal if and only if they reference
\* the same slot of the same buffer generation, whatever containers they were
\* taken from and whatever calls lie between taking them.
C22_EqualIffSameGeneration ==
    last.op = "compare" => (last.cmp.eq <=> SameSlotSameGeneration)

\* C22: two cursors compare equal if and only if they hold the same address.
\* Cursors with the same buffer address are equal exactly when their offsets
\* are; cursors with different buffer addresses are unequal, unless one is
\* one past the end of its buffer and the other at the start of another
\* (unspecified). A cursor whose buffer has not been freed since it was taken
\* points into a buffer held by exactly one container, and equals a cursor now
\* taken from container w only at the same slot of the buffer w holds.
C22_EqualIffSameAddress ==
    last.op = "compare" =>
        LET left == last.cmp.left
            right == last.cmp.right
        IN  /\ left[1] = right[1] => (last.cmp.eq <=> left[2] = right[2])
            /\ (left[1] # right[1] /\ last.cmp.eq) =>
                  \/ PastTheEnd(heap, left) /\ AtStart(heap, right)
                  \/ PastTheEnd(heap, right) /\ AtStart(heap, left)
            /\ (last.cmp.fresh /\ left[1] # NullPtr) =>
                  /\ heap[left[1]].used
                  /\ Cardinality(Owners(left[1])) = 1
                  /\ left[1] = right[1] => Owners(left[1]) = {last.other}
            /\ right[1] # NullPtr => heap[right[1]].used

\* C22 witness: a cursor into a buffer that has since been freed compares
\* equal to a cursor into the buffer now allocated at that address.
C22_Witness ==
    /\ last.op = "compare" /\ last.cmp.eq /\ ~last.cmp.fresh
    /\ last.cmp.left[1] # NullPtr
    /\ last.cmp.left = last.cmp.right

\* The constructor runs a returning call owes to its new element.
NewCopy ==
    IF last.op \in {"push_back", "push_back_element"} /\ last.exc = "none"
    THEN 1 ELSE 0
NewMove == IF last.op = "push_back_move" /\ last.exc = "none" THEN 1 ELSE 0

\* C23: a reallocation, in an append, reserve or resize, relocates the
\* elements in index order 0, 1, 2, ..., each once and to its own index, by
\* move construction when the element type's move is noexcept and by copy
\* construction otherwise: with a noexcept move no copy constructor runs for
\* an existing element, and when a copy throws the old buffer and its
\* elements are as before the call, none having been destroyed.
C23_RelocationByMoveIfNoexcept ==
    (last.op \in Appends \cup {"reserve", "resize"} /\ last.log.alloc = 1) =>
        LET n == Before._size
            order == last.log.order
        IN  /\ order = [k \in 1..Len(order) |-> k - 1]
            /\ last.exc # "copy" => Len(order) = n
            /\ last.exc = "none" =>
                  \A k \in 1..n : Elems(last.v)[k] = PreElems(last.v)[k]
            /\ noexceptMove =>
                  /\ last.log.copy = NewCopy
                  /\ last.log.move = Len(order) + NewMove
                  /\ last.exc # "copy"
            /\ ~noexceptMove =>
                  /\ last.log.move = NewMove
                  /\ last.log.copy = Len(order) + NewCopy
            /\ last.exc = "copy" =>
                  /\ Len(order) < n
                  /\ last.log.dtor = Len(order)
                  /\ Now = Before
                  /\ heap[Before._data] = last.pre.heap[Before._data]

\* C23 witness: reserve relocated two elements by move construction.
C23_Witness ==
    /\ last.op = "reserve" /\ last.exc = "none" /\ noexceptMove
    /\ last.log.order = <<0, 1>> /\ last.log.move = 2 /\ last.log.copy = 0

\* C24: push_back(v[i]) that returns has appended a value equal to v[i] as
\* it was before the call, also when the call reallocated, and has read no
\* object that was destroyed nor any buffer that was freed.
C24_PushBackOfOwnElement ==
    (last.op = "push_back_element" /\ last.exc = "none") =>
        /\ Now._size = Before._size + 1
        /\ Elems(last.v)[Now._size] = PreElems(last.v)[last.arg + 1]
        /\ last.log.badAccess = 0

====
